---- MODULE Spec2Model ----
(***************************************************************************)
(* Model of imgtransform.py: one invocation of main(), which checks the    *)
(* input path, creates the output directory, and runs exactly one of       *)
(* halftone(), bayer_dither() or posterize() (load -> transform -> save).  *)
(*                                                                         *)
(* A PIL image of mode 'L' is a record [size |-> <<width, height>>,        *)
(* data |-> row-major flat sequence of samples]; a numpy array is a record *)
(* [shape |-> <<rows, cols>>, a |-> sequence of rows].  The conversions    *)
(* between the two (np.array, Image.fromarray) are modelled as the index   *)
(* arithmetic they perform.                                                *)
(*                                                                         *)
(* Python floats are modelled as exact fractions [num, den] (den > 0).     *)
(* The Bayer thresholds M/64.0*255.0 are exact in binary64; for the        *)
(* halftone mean and radius the model computes the real-number value of    *)
(* the expression the code evaluates in binary64.                          *)
(***************************************************************************)
EXTENDS Integers, Sequences, FiniteSets, TLC

VARIABLES
    pc,        \* position of main(): start, mkdir, load, transform, cells, save, exit
    args,      \* the parsed argparse namespace
    outFile,   \* what the output path holds
    outFile0,  \* what the output path held when the process started
    img,       \* the loaded grayscale image (local `img`)
    output,    \* the transform's output image (local `output`)
    x, y,      \* halftone's loop variables
    cells,     \* history: one record per halftone cell processed, in order
    stages,    \* history: the stages that started executing, in order
    raised,    \* history: the stage that failed ("none" while none has)
    exitCode,  \* -1 while running, then the process's exit status
    stdout,    \* lines printed to stdout
    stderr     \* lines printed to stderr

vars == <<pc, args, outFile, outFile0, img, output, x, y, cells, stages,
          raised, exitCode, stdout, stderr>>

(***************************************************************************)
(* Bounds of the input domain.                                             *)
(***************************************************************************)
MaxW == 3
MaxH == 3

\* sample values: black, the default threshold and its successor, white
PixelVals == {0, 128, 129, 255}

\* image sizes (width, height): every small size, and the 8x8 and 16x16
\* grids, which cover one and four full tiles of the 8x8 Bayer matrix
ImageSizes == ((1..MaxW) \X (1..MaxH)) \cup {<<8, 8>>, <<16, 16>>}

Min(a, b) == IF a < b THEN a ELSE b

\* a two-valued checkerboard (uniform when a = b)
Checker(w, h, a, b) ==
    [size |-> <<w, h>>,
     data |-> [i \in 1..(w * h) |->
                 IF (((i - 1) % w) + ((i - 1) \div w)) % 2 = 0 THEN a ELSE b]]

\* the vertical gradient test_tool.py draws: row r has brightness r*255/h
Gradient(w, h) ==
    [size |-> <<w, h>>,
     data |-> [i \in 1..(w * h) |-> (((i - 1) \div w) * 255) \div h]]

\* what Image.open(path).convert('L') may return
InputImages ==
    {Checker(s[1], s[2], a, b) :
        s \in (1..MaxW) \X (1..MaxH), a \in PixelVals, b \in PixelVals}
    \cup {Checker(s[1], s[2], a, a) : s \in ImageSizes, a \in PixelVals}
    \cup {Gradient(s[1], s[2]) : s \in ImageSizes}

Modes == {"halftone", "dither", "posterize"}
DotSizes == {-1, 0, 1, 2, 3, 8}
Scales == {-1, 0, 1, 2}
Thresholds == {-1, 0, 128, 180, 255, 300}

default_dot_size == 8
default_scale == 1
default_threshold == 128

output_path == "out/result.png"

(***************************************************************************)
(* PIL and numpy helpers.                                                  *)
(***************************************************************************)
NoImage == [size |-> <<0, 0>>, data |-> <<>>]

Width(im) == im.size[1]
Height(im) == im.size[2]

\* the sample at column px, row py (0-based, as img.getpixel((px, py)))
GetPixel(im, px, py) == im.data[py * Width(im) + px + 1]

\* Image.new('L', (w, h), color)
ImageNew(w, h, color) == [size |-> <<w, h>>, data |-> [i \in 1..(w * h) |-> color]]

\* np.array(img): shape (height, width), a[r][c] the sample at column c-1, row r-1
NpArray(im) ==
    [shape |-> <<Height(im), Width(im)>>,
     a |-> [r \in 1..Height(im) |->
              [c \in 1..Width(im) |-> im.data[(r - 1) * Width(im) + c]]]]

\* mutant: the size taken as (rows, cols)
FromArray_Swapped(arr) ==
    [size |-> <<arr.shape[1], arr.shape[2]>>,
     data |-> [i \in 1..(arr.shape[1] * arr.shape[2]) |->
                 arr.a[((i - 1) \div arr.shape[2]) + 1][((i - 1) % arr.shape[2]) + 1]]]

\* Image.fromarray(arr, mode='L'): size (cols, rows)
FromArray(arr) ==
    [size |-> <<arr.shape[2], arr.shape[1]>>,
     data |-> [i \in 1..(arr.shape[1] * arr.shape[2]) |->
                 arr.a[((i - 1) \div arr.shape[2]) + 1][((i - 1) % arr.shape[2]) + 1]]]

\* mutant: a signed 8-bit cast
AsUint8_Int8(v) == IF v % 256 > 127 THEN (v % 256) - 256 ELSE v % 256

\* .astype(np.uint8) of one element
AsUint8(v) == v % 256

(***************************************************************************)
(* posterize (lines 107-125)                                               *)
(***************************************************************************)
\* mutant: a non-strict comparison
PosterizeArray_Ge(img_array, threshold) ==
    [shape |-> img_array.shape,
     a |-> [r \in 1..img_array.shape[1] |->
              [c \in 1..img_array.shape[2] |->
                 AsUint8(IF img_array.a[r][c] >= threshold THEN 255 ELSE 0)]]]

\* np.where(img_array > threshold, 255, 0).astype(np.uint8)
PosterizeArray(img_array, threshold) ==
    [shape |-> img_array.shape,
     a |-> [r \in 1..img_array.shape[1] |->
              [c \in 1..img_array.shape[2] |->
                 AsUint8(IF img_array.a[r][c] > threshold THEN 255 ELSE 0)]]]

PosterizeImage(im, threshold) == FromArray(PosterizeArray(NpArray(im), threshold))

(***************************************************************************)
(* bayer_dither (lines 66-104)                                             *)
(***************************************************************************)
bayer_matrix ==
    << << 0, 32,  8, 40,  2, 34, 10, 42>>,
       <<48, 16, 56, 24, 50, 18, 58, 26>>,
       <<12, 44,  4, 36, 14, 46,  6, 38>>,
       <<60, 28, 52, 20, 62, 30, 54, 22>>,
       << 3, 35, 11, 43,  1, 33,  9, 41>>,
       <<51, 19, 59, 27, 49, 17, 57, 25>>,
       <<15, 47,  7, 39, 13, 45,  5, 37>>,
       <<63, 31, 55, 23, 61, 29, 53, 21>> >>

\* mutant: the matrix indexed [col, row]
BayerThreshold_Transposed(row, col) ==
    [num |-> bayer_matrix[col + 1][row + 1] * 255, den |-> 64]

\* (bayer_matrix / 64.0) * 255.0 at [row, col] (0-based), as a fraction
BayerThreshold(row, col) == [num |-> bayer_matrix[row + 1][col + 1] * 255, den |-> 64]

\* v > f for an integer v and a fraction f
GreaterThanFrac(v, f) == v * f.den > f.num

\* output_array[y, x] = 255 if img_array[y, x] > threshold else 0
DitherPixel(v, row, col) ==
    AsUint8(IF GreaterThanFrac(v, BayerThreshold(row % 8, col % 8)) THEN 255 ELSE 0)

DitherArray(img_array) ==
    [shape |-> img_array.shape,
     a |-> [r \in 1..img_array.shape[1] |->
              [c \in 1..img_array.shape[2] |->
                 DitherPixel(img_array.a[r][c], r - 1, c - 1)]]]

DitherImage(im) == FromArray(DitherArray(NpArray(im)))

(***************************************************************************)
(* Exact fractions for the float expressions of halftone.                  *)
(***************************************************************************)
RECURSIVE Gcd(_, _)
Gcd(a, b) == IF b = 0 THEN a ELSE Gcd(b, a % b)

Abs(v) == IF v < 0 THEN -v ELSE v

\* the fraction n/d (d # 0) in lowest terms with a positive denominator
Frac(n, d) ==
    LET g == Gcd(Abs(n), Abs(d))
        sg == IF d < 0 THEN -1 ELSE 1
    IN  [num |-> sg * (n \div g), den |-> sg * (d \div g)]

FSub(f, g) == Frac(f.num * g.den - g.num * f.den, f.den * g.den)
FAdd(f, g) == Frac(f.num * g.den + g.num * f.den, f.den * g.den)
FMul(f, g) == Frac(f.num * g.num, f.den * g.den)
FDiv(f, g) == Frac(f.num * g.den, f.den * g.num)
FLess(f, g) == f.num * g.den < g.num * f.den

\* C's (int) cast of a double: truncation toward zero
Trunc(f) == IF f.num >= 0 THEN f.num \div f.den ELSE -((-f.num) \div f.den)

(***************************************************************************)
(* halftone (lines 14-63)                                                  *)
(***************************************************************************)
RECURSIVE SumSeq(_)
SumSeq(s) == IF s = <<>> THEN 0 ELSE Head(s) + SumSeq(Tail(s))

\* img.crop((left, upper, right, lower)); PIL fills what lies outside with 0
Crop(im, left, upper, right, lower) ==
    LET w == right - left
        h == lower - upper
    IN  [size |-> <<w, h>>,
         data |-> [i \in 1..(w * h) |->
                     LET px == left + ((i - 1) % w)
                         py == upper + ((i - 1) \div w)
                     IN  IF px < Width(im) /\ py < Height(im)
                         THEN GetPixel(im, px, py) ELSE 0]]

\* mutant: the crop box not clipped to the image
Region_Padded(im, cx, cy, dot_size) ==
    Crop(im, cx, cy, cx + dot_size, cy + dot_size)

\* region = img.crop((x, y, min(x + dot_size, width), min(y + dot_size, height)))
Region(im, cx, cy, dot_size) ==
    Crop(im, cx, cy, Min(cx + dot_size, Width(im)), Min(cy + dot_size, Height(im)))

\* np.array(region).mean()
Mean(region) == Frac(SumSeq(region.data), Len(region.data))

\* mutant: the brightness not inverted
DotRadius_NotInverted(avg_brightness, dot_size, scale) ==
    FMul(FDiv(avg_brightness, Frac(255, 1)), Frac(dot_size * scale, 2))

\* ((255 - avg_brightness) / 255) * (dot_size * scale / 2)
DotRadius(avg_brightness, dot_size, scale) ==
    FMul(FDiv(FSub(Frac(255, 1), avg_brightness), Frac(255, 1)),
         Frac(dot_size * scale, 2))

\* (c + dot_size / 2) * scale
Center(c, dot_size, scale) == FMul(FAdd(Frac(c, 1), Frac(dot_size, 2)), Frac(scale, 1))

\* if dot_radius > 0.5
DotDrawn(dot_radius) == FLess(Frac(1, 2), dot_radius)

\* the bounding box handed to draw.ellipse, after the library's (int) casts
EllipseBox(center_x, center_y, dot_radius) ==
    <<Trunc(FSub(center_x, dot_radius)), Trunc(FSub(center_y, dot_radius)),
      Trunc(FAdd(center_x, dot_radius)), Trunc(FAdd(center_y, dot_radius))>>

\* whether the filled ellipse inscribed in the (inclusive) box covers pixel
\* (px, py).  The rasterisation is the library's; it is abstracted as the
\* pixels of the box whose unit square meets the ellipse.  ex and ey are the
\* pixel's offsets from the centre of the box, doubled.
InEllipse(px, py, box) ==
    LET a == box[3] - box[1]
        b == box[4] - box[2]
        ex == Abs(2 * (px - box[1]) - a)
        ey == Abs(2 * (py - box[2]) - b)
        ix == IF ex = 0 THEN 0 ELSE ex - 1
        iy == IF ey = 0 THEN 0 ELSE ey - 1
    IN  /\ box[1] <= px /\ px <= box[3]
        /\ box[2] <= py /\ py <= box[4]
        /\ ix * ix * b * b + iy * iy * a * a <= a * a * b * b

\* mutant: the ellipse inverts the pixels it covers
DrawEllipse_Xor(im, box, fill) ==
    [im EXCEPT !.data =
        [i \in 1..Len(im.data) |->
            IF InEllipse((i - 1) % Width(im), (i - 1) \div Width(im), box)
            THEN 255 - im.data[i] ELSE im.data[i]]]

\* draw.ellipse(box, fill=fill) on image im
DrawEllipse(im, box, fill) ==
    [im EXCEPT !.data =
        [i \in 1..Len(im.data) |->
            IF InEllipse((i - 1) % Width(im), (i - 1) \div Width(im), box)
            THEN fill ELSE im.data[i]]]

\* what one iteration of the loop body computes for the cell at (cx, cy)
Cell(im, cx, cy, dot_size, scale) ==
    LET region == Region(im, cx, cy, dot_size)
        avg_brightness == Mean(region)
        dot_radius == DotRadius(avg_brightness, dot_size, scale)
    IN  [x |-> cx, y |-> cy, n |-> Len(region.data),
         avg_brightness |-> avg_brightness,
         dot_radius |-> dot_radius,
         drawn |-> DotDrawn(dot_radius),
         center_x |-> Center(cx, dot_size, scale),
         center_y |-> Center(cy, dot_size, scale)]

\* the loop body's effect on the canvas
DrawCell(canvas, c) ==
    IF c.drawn
    THEN DrawEllipse(canvas, EllipseBox(c.center_x, c.center_y, c.dot_radius), 0)
    ELSE canvas

(***************************************************************************)
(* main (lines 128-183)                                                    *)
(***************************************************************************)
Absent == [kind |-> "absent", image |-> NoImage]
Old == [kind |-> "old", image |-> NoImage]
Partial == [kind |-> "partial", image |-> NoImage]
Complete(im) == [kind |-> "complete", image |-> im]

\* argparse: exactly one mode flag; the options of the other modes keep
\* their defaults
ArgSets ==
    {[mode |-> "halftone", dot_size |-> d, scale |-> s, threshold |-> default_threshold] :
        d \in DotSizes, s \in Scales}
    \cup {[mode |-> "dither", dot_size |-> default_dot_size, scale |-> default_scale,
           threshold |-> default_threshold]}
    \cup {[mode |-> "posterize", dot_size |-> default_dot_size, scale |-> default_scale,
           threshold |-> t] : t \in Thresholds}

Init ==
    /\ pc = "start"
    /\ args \in ArgSets
    /\ outFile \in {Absent, Old}
    /\ outFile0 = outFile
    /\ img = NoImage
    /\ output = NoImage
    /\ x = 0
    /\ y = 0
    /\ cells = <<>>
    /\ stages = <<>>
    /\ raised = "none"
    /\ exitCode = -1
    /\ stdout = <<>>
    /\ stderr = <<>>

\* print(..., file=sys.stderr); sys.exit(1)
ExitWithError(msg) ==
    /\ pc' = "exit"
    /\ exitCode' = 1
    /\ stderr' = Append(stderr, msg)

\* mutant: the message is printed but the process ends normally
Handler_NoExit ==
    /\ pc' = "exit"
    /\ exitCode' = 0
    /\ stderr' = Append(stderr, "Error processing image")

\* the except clause of main (lines 181-183)
Handler == ExitWithError("Error processing image")

\* an exception raised inside the try block by the given stage
Raise(stage) ==
    /\ raised' = stage
    /\ Handler

NoError == UNCHANGED <<raised, exitCode, stderr>>

\* lines 165-167
CheckInput ==
    /\ pc = "start"
    /\ \E exists \in BOOLEAN :
          IF exists
          THEN /\ pc' = "mkdir"
               /\ NoError
          ELSE /\ raised' = "input"
               /\ ExitWithError("Error: Input file not found")
    /\ UNCHANGED <<args, outFile, outFile0, img, output, x, y, cells, stages, stdout>>

\* lines 170-172; a failing mkdir is an uncaught exception: traceback, status 1
MkDir ==
    /\ pc = "mkdir"
    /\ \E dirExists \in BOOLEAN, ok \in BOOLEAN :
          /\ (~dirExists) => outFile = Absent
          /\ IF dirExists \/ ok
             THEN /\ pc' = "load"
                  /\ NoError
             ELSE /\ raised' = "mkdir"
                  /\ ExitWithError("Traceback")
    /\ UNCHANGED <<args, outFile, outFile0, img, output, x, y, cells, stages, stdout>>

\* Image.open(image_path).convert('L') (lines 25, 90, 117)
Load ==
    /\ pc = "load"
    /\ stages' = Append(stages, "load")
    /\ \/ /\ \E im \in InputImages : img' = im
          /\ pc' = "transform"
          /\ NoError
       \/ /\ Raise("load")
          /\ UNCHANGED img
    /\ UNCHANGED <<args, outFile, outFile0, output, x, y, cells, stdout>>

\* lines 26-35: the canvas, and the entry into the loops
HalftoneSetup ==
    /\ pc = "transform"
    /\ args.mode = "halftone"
    /\ stages' = Append(stages, "halftone")
    /\ IF args.scale < 0
       THEN \* Image.new rejects a negative size
            /\ Raise("halftone")
            /\ UNCHANGED output
       ELSE /\ output' = ImageNew(Width(img) * args.scale, Height(img) * args.scale, 255)
            /\ IF args.dot_size = 0
               THEN \* range() arg 3 must not be zero
                    Raise("halftone")
               ELSE /\ pc' = IF args.dot_size > 0 THEN "cells" ELSE "save"
                    /\ NoError
    /\ UNCHANGED <<args, outFile, outFile0, img, x, y, cells, stdout>>

\* lines 36-60: one iteration of the inner loop, and the step to the next
HalftoneCell ==
    /\ pc = "cells"
    /\ LET c == Cell(img, x, y, args.dot_size, args.scale)
       IN  /\ output' = DrawCell(output, c)
           /\ cells' = Append(cells, c)
    /\ IF x + args.dot_size < Width(img)
       THEN /\ x' = x + args.dot_size
            /\ UNCHANGED <<y, pc>>
       ELSE /\ x' = 0
            /\ IF y + args.dot_size < Height(img)
               THEN /\ y' = y + args.dot_size
                    /\ UNCHANGED pc
               ELSE /\ y' = 0
                    /\ pc' = "save"
    /\ UNCHANGED <<args, outFile, outFile0, img, stages, raised, exitCode, stdout,
                   stderr>>

\* lines 91-102
BayerDither ==
    /\ pc = "transform"
    /\ args.mode = "dither"
    /\ stages' = Append(stages, "dither")
    /\ output' = DitherImage(img)
    /\ pc' = "save"
    /\ NoError
    /\ UNCHANGED <<args, outFile, outFile0, img, x, y, cells, stdout>>

\* lines 118-123
Posterize ==
    /\ pc = "transform"
    /\ args.mode = "posterize"
    /\ stages' = Append(stages, "posterize")
    /\ output' = PosterizeImage(img, args.threshold)
    /\ pc' = "save"
    /\ NoError
    /\ UNCHANGED <<args, outFile, outFile0, img, x, y, cells, stdout>>

\* the line each transform prints after saving (lines 63, 104, 125)
SavedMessage(mode) ==
    IF mode = "halftone" THEN <<"Halftone image saved to", output_path>>
    ELSE IF mode = "dither" THEN <<"Dithered image saved to", output_path>>
    ELSE <<"Posterized image saved to", output_path>>

\* what output.save(output_path) can leave at the path when it raises: the
\* format is chosen from the extension before the file is opened, and the
\* file is opened for writing (truncated) before the encoder runs
SaveFailures(before) == {before, Partial}

\* output.save(output_path) and the confirmation print (lines 62-63, 103-104,
\* 124-125)
Save ==
    /\ pc = "save"
    /\ stages' = Append(stages, "save")
    /\ \/ /\ output.data # <<>>   \* the encoder rejects an image without pixels
          /\ outFile' = Complete(output)
          /\ stdout' = Append(stdout, SavedMessage(args.mode))
          /\ pc' = "exit"
          /\ exitCode' = 0
          /\ UNCHANGED <<raised, stderr>>
       \/ /\ outFile' \in SaveFailures(outFile)
          /\ Raise("save")
          /\ UNCHANGED stdout
    /\ UNCHANGED <<args, outFile0, img, output, x, y, cells>>

Next ==
    \/ CheckInput
    \/ MkDir
    \/ Load
    \/ HalftoneSetup
    \/ HalftoneCell
    \/ BayerDither
    \/ Posterize
    \/ Save

Spec == Init /\ [][Next]_vars

(***************************************************************************)
(* halftone with its loop iterations taken in any order: the specification *)
(* under which the order-independence of the canvas is checked.            *)
(***************************************************************************)
MaxCells == 4

\* range(0, stop, step) for step > 0
Range(stop, step) == {v \in 0..(stop - 1) : v % step = 0}

\* the (x, y) pairs the two loops of halftone visit
CellOrigins(im, dot_size) == Range(Width(im), dot_size) \X Range(Height(im), dot_size)

\* the canvas after the first k iterations of the loops in the code's order
RECURSIVE RowMajorCanvas(_, _, _, _)
RowMajorCanvas(im, dot_size, scale, k) ==
    IF k = 0
    THEN ImageNew(Width(im) * scale, Height(im) * scale, 255)
    ELSE LET ncols == Cardinality(Range(Width(im), dot_size))
             cx == ((k - 1) % ncols) * dot_size
             cy == ((k - 1) \div ncols) * dot_size
         IN  DrawCell(RowMajorCanvas(im, dot_size, scale, k - 1),
                      Cell(im, cx, cy, dot_size, scale))

InitAnyOrder ==
    /\ pc = "transform"
    /\ args \in {a \in ArgSets : a.mode = "halftone" /\ a.dot_size > 0 /\ a.scale > 0}
    /\ img \in {im \in InputImages :
                  Cardinality(CellOrigins(im, args.dot_size)) <= MaxCells}
    /\ outFile = Absent
    /\ outFile0 = outFile
    /\ output = NoImage
    /\ x = 0
    /\ y = 0
    /\ cells = <<>>
    /\ stages = <<"load">>
    /\ raised = "none"
    /\ exitCode = -1
    /\ stdout = <<>>
    /\ stderr = <<>>

\* the loop body (lines 36-60) run for any cell not yet processed
HalftoneCellAny ==
    /\ pc = "cells"
    /\ LET done == {<<cells[i].x, cells[i].y>> : i \in 1..Len(cells)}
           todo == CellOrigins(img, args.dot_size) \ done
       IN  \E o \in todo :
              LET c == Cell(img, o[1], o[2], args.dot_size, args.scale)
              IN  /\ output' = DrawCell(output, c)
                  /\ cells' = Append(cells, c)
                  /\ x' = o[1]
                  /\ y' = o[2]
                  /\ pc' = IF todo = {o} THEN "save" ELSE "cells"
    /\ UNCHANGED <<args, outFile, outFile0, img, stages, raised, exitCode, stdout,
                   stderr>>

NextAnyOrder ==
    \/ HalftoneSetup
    \/ HalftoneCellAny

SpecAnyOrder == InitAnyOrder /\ [][NextAnyOrder]_vars

(***************************************************************************)
(* Properties.                                                             *)
(***************************************************************************)
\* the transform of the given mode has run to its end without raising
Ran(mode) ==
    /\ args.mode = mode
    /\ pc \in {"save", "exit"}
    /\ Len(stages) >= 2
    /\ raised \notin {"load", mode}

Pixels(im) == (0..(Width(im) - 1)) \X (0..(Height(im) - 1))

AllPixels(im, v) == \A i \in 1..Len(im.data) : im.data[i] = v

\* C1: posterize with a threshold t in 0..255 maps every pixel strictly
\* above t to 255 and every other pixel to 0; a uniform image at t becomes
\* all 0 and a uniform image at t+1 becomes all 255.
C1_PosterizeStrictThreshold ==
    (Ran("posterize") /\ args.threshold \in 0..255) =>
        /\ Len(output.data) = Len(img.data)
        /\ \A p \in Pixels(img) :
              GetPixel(output, p[1], p[2]) =
                 IF GetPixel(img, p[1], p[2]) > args.threshold THEN 255 ELSE 0
        /\ AllPixels(img, args.threshold) => AllPixels(output, 0)
        /\ AllPixels(img, args.threshold + 1) => AllPixels(output, 255)

\* Scenario C: the 16x16 image of value 128 posterized at 128 is all black
C1_Witness ==
    /\ Ran("posterize")
    /\ args.threshold = 128
    /\ img.size = <<16, 16>>
    /\ AllPixels(img, 128)
    /\ AllPixels(output, 0)

\* the 8x8 matrix of raw values as the specification lists it
SpecBayer ==
    << << 0, 32,  8, 40,  2, 34, 10, 42>>,
       <<48, 16, 56, 24, 50, 18, 58, 26>>,
       <<12, 44,  4, 36, 14, 46,  6, 38>>,
       <<60, 28, 52, 20, 62, 30, 54, 22>>,
       << 3, 35, 11, 43,  1, 33,  9, 41>>,
       <<51, 19, 59, 27, 49, 17, 57, 25>>,
       <<15, 47,  7, 39, 13, 45,  5, 37>>,
       <<63, 31, 55, 23, 61, 29, 53, 21>> >>

\* C2: bayer_dither maps pixel (x, y) to 255 when
\* 64 * source[y][x] > 255 * M[y mod 8][x mod 8] and to 0 otherwise (a tie
\* gives 0); an all-255 image stays all 255 and an all-0 image all 0.
C2_BayerDitherThreshold ==
    Ran("dither") =>
        /\ Len(output.data) = Len(img.data)
        /\ \A p \in Pixels(img) :
              GetPixel(output, p[1], p[2]) =
                 IF 64 * GetPixel(img, p[1], p[2])
                       > 255 * SpecBayer[(p[2] % 8) + 1][(p[1] % 8) + 1]
                 THEN 255 ELSE 0
        /\ AllPixels(img, 255) => AllPixels(output, 255)
        /\ AllPixels(img, 0) => AllPixels(output, 0)

\* a 16x16 image (four tiles of the matrix) with the tie at (0, 0) and both
\* output values
C2_Witness ==
    /\ Ran("dither")
    /\ img.size = <<16, 16>>
    /\ GetPixel(img, 0, 0) = 0
    /\ GetPixel(output, 0, 0) = 0
    /\ \E p \in Pixels(img) : GetPixel(output, p[1], p[2]) = 255
    /\ \E p \in Pixels(img) :
          /\ p[1] >= 8
          /\ GetPixel(img, p[1], p[2]) > 0
          /\ GetPixel(output, p[1], p[2]) = 0

\* C7: the dither and posterize outputs have the input's dimensions; the
\* halftone canvas is (width * scale, height * scale) for every
\* dot_size >= 1 and scale >= 1.
C7_Dimensions ==
    /\ (Ran("dither") \/ Ran("posterize")) =>
           /\ output.size = img.size
           /\ Len(output.data) = Width(img) * Height(img)
    /\ (/\ args.mode = "halftone"
        /\ args.dot_size >= 1
        /\ args.scale >= 1
        /\ pc \in {"cells", "save", "exit"}
        /\ raised \notin {"load"}
        /\ Len(stages) >= 2) =>
           /\ output.size = <<Width(img) * args.scale, Height(img) * args.scale>>
           /\ Len(output.data) = Width(img) * args.scale * Height(img) * args.scale

\* a finished halftone of a non-square image whose sides are no multiples of
\* dot_size, scaled by 2
C7_Witness ==
    /\ Ran("halftone")
    /\ args.dot_size = 2
    /\ args.scale = 2
    /\ img.size = <<3, 1>>
    /\ output.size = <<6, 2>>

\* C8: every pixel of a dither or posterize output is 0 or 255.
C8_BinaryRange ==
    (Ran("dither") \/ Ran("posterize")) =>
        \A i \in 1..Len(output.data) : output.data[i] \in {0, 255}

\* a posterize output at threshold 0 holding both values
C8_Witness ==
    /\ Ran("posterize")
    /\ args.threshold = 0
    /\ \E i \in 1..Len(output.data) : output.data[i] = 0
    /\ \E i \in 1..Len(output.data) : output.data[i] = 255

\* the halftone loops are running or have finished
HalftoneLooping ==
    /\ args.mode = "halftone"
    /\ pc \in {"cells", "save"}
    /\ args.dot_size >= 1
    /\ args.scale >= 1

\* C9: of two cells processed with the same dot_size and scale, the one with
\* the smaller avg_brightness has a dot_radius at least as large, and has a
\* dot drawn whenever the brighter one has.
C9_HalftoneMonotone ==
    (args.mode = "halftone" /\ cells # <<>>) =>
        LET last == cells[Len(cells)]
            Ordered(c, d) ==
                FLess(c.avg_brightness, d.avg_brightness) =>
                    /\ ~FLess(c.dot_radius, d.dot_radius)
                    /\ d.drawn => c.drawn
        IN  \A i \in 1..Len(cells) :
                /\ Ordered(cells[i], last)
                /\ Ordered(last, cells[i])

\* two cells of one run, the darker with the strictly larger dot, both drawn
C9_Witness ==
    /\ args.mode = "halftone"
    /\ \E i \in 1..Len(cells), j \in 1..Len(cells) :
          /\ FLess(cells[i].avg_brightness, cells[j].avg_brightness)
          /\ FLess(cells[j].dot_radius, cells[i].dot_radius)
          /\ cells[j].drawn
          /\ cells[i].drawn

\* the number of cell columns of the partition the specification describes
SpecCols(w, ds) == (w + ds - 1) \div ds
SpecRows(h, ds) == (h + ds - 1) \div ds

\* the origin of the k-th cell (k >= 1) in row-major order
SpecCellX(k, w, ds) == ((k - 1) % SpecCols(w, ds)) * ds
SpecCellY(k, w, ds) == ((k - 1) \div SpecCols(w, ds)) * ds

\* the pixels of the image that lie in the cell at (cx, cy)
SpecCellPixels(cx, cy, w, h, ds) ==
    {p \in (cx..(cx + ds - 1)) \X (cy..(cy + ds - 1)) : p[1] < w /\ p[2] < h}

RECURSIVE SumPixels(_, _)
SumPixels(im, S) ==
    IF S = {} THEN 0
    ELSE LET p == CHOOSE q \in S : TRUE
         IN  GetPixel(im, p[1], p[2]) + SumPixels(im, S \ {p})

\* record c is what the specification prescribes for the k-th cell
SpecCellOK(c, k) ==
    LET ds == args.dot_size
        cx == SpecCellX(k, Width(img), ds)
        cy == SpecCellY(k, Width(img), ds)
        P == SpecCellPixels(cx, cy, Width(img), Height(img), ds)
        n == Cardinality(P)
        total == SumPixels(img, P)
        \* dot_radius = rnum / (510 * n)
        rnum == (255 * n - total) * ds * args.scale
    IN  /\ c.x = cx
        /\ c.y = cy
        /\ c.n = n
        /\ c.avg_brightness.num * n = total * c.avg_brightness.den
        /\ c.dot_radius.num * 510 * n = rnum * c.dot_radius.den
        /\ c.drawn <=> (2 * rnum > 510 * n)
        /\ c.center_x.num * 2 = (2 * cx + ds) * args.scale * c.center_x.den
        /\ c.center_y.num * 2 = (2 * cy + ds) * args.scale * c.center_y.den

\* the pixel columns and rows the circle of a drawn cell can touch
SpecCircleBox(c) ==
    [x0 |-> Trunc(FSub(c.center_x, c.dot_radius)),
     x1 |-> Trunc(FAdd(c.center_x, c.dot_radius)),
     y0 |-> Trunc(FSub(c.center_y, c.dot_radius)),
     y1 |-> Trunc(FAdd(c.center_y, c.dot_radius))]

\* C3: halftone visits the cells of the dot_size partition in row-major
\* order, the last cell of a row or column clipped to the image; each cell's
\* avg_brightness is the mean of its own pixels, its dot_radius is
\* ((255 - avg_brightness) / 255) * (dot_size * scale / 2), and a black
\* circle centred at ((cell_x + dot_size/2) * scale,
\* (cell_y + dot_size/2) * scale) is drawn iff dot_radius > 0.5; a white
\* 16x16 image gives a white canvas, a black 8x8 image with dot_size 8 and
\* scale 1 one circle of radius 4 centred at (4, 4).
C3_HalftoneCells ==
    HalftoneLooping =>
        LET ncells == SpecCols(Width(img), args.dot_size)
                        * SpecRows(Height(img), args.dot_size)
        IN  /\ Len(cells) <= ncells
            /\ cells # <<>> => SpecCellOK(cells[Len(cells)], Len(cells))
            /\ pc = "save" =>
                  LET boxes == {SpecCircleBox(cells[k]) :
                                   k \in {j \in 1..Len(cells) : cells[j].drawn}}
                  IN  /\ Len(cells) = ncells
                      /\ \A k \in 1..ncells : SpecCellOK(cells[k], k)
                      \* black pixels lie in the square around a drawn circle
                      /\ \A p \in Pixels(output) :
                            GetPixel(output, p[1], p[2]) # 255 =>
                               /\ GetPixel(output, p[1], p[2]) = 0
                               /\ \E b \in boxes :
                                     /\ b.x0 <= p[1] /\ p[1] <= b.x1
                                     /\ b.y0 <= p[2] /\ p[2] <= b.y1
                      \* the centre of a drawn circle is black
                      /\ \A k \in 1..ncells :
                            LET px == Trunc(cells[k].center_x)
                                py == Trunc(cells[k].center_y)
                            IN  (/\ cells[k].drawn
                                 /\ px < Width(output)
                                 /\ py < Height(output)) =>
                                    GetPixel(output, px, py) = 0
                      \* Scenario E
                      /\ (/\ img.size = <<16, 16>>
                          /\ AllPixels(img, 255)
                          /\ args.dot_size = 8) =>
                             AllPixels(output, 255)
                      \* Scenario F
                      /\ (/\ img.size = <<8, 8>>
                          /\ AllPixels(img, 0)
                          /\ args.dot_size = 8
                          /\ args.scale = 1) =>
                             /\ Len(cells) = 1
                             /\ cells[1].drawn
                             /\ cells[1].center_x = Frac(4, 1)
                             /\ cells[1].center_y = Frac(4, 1)
                             /\ cells[1].dot_radius = Frac(4, 1)

\* a finished run with a clipped cell that got a dot and a cell that got none
C3_Witness ==
    /\ HalftoneLooping
    /\ pc = "save"
    /\ \E k \in 1..Len(cells) :
          /\ cells[k].n < args.dot_size * args.dot_size
          /\ cells[k].x > 0
          /\ cells[k].drawn
    /\ \E k \in 1..Len(cells) : ~cells[k].drawn
    /\ \E i \in 1..Len(output.data) : output.data[i] = 0

\* the stages that have started when an error is raised by `stage`
StagesUpTo(stage) ==
    IF stage \in {"input", "mkdir"} THEN <<>>
    ELSE IF stage = "load" THEN <<"load">>
    ELSE IF stage = "save" THEN <<"load", args.mode, "save">>
    ELSE <<"load", stage>>

IsPrefix(s, t) == Len(s) <= Len(t) /\ \A i \in 1..Len(s) : s[i] = t[i]

\* C6: one mode is selected and only its transform runs, in the order
\* load -> transform -> save; the process exits 0 with the confirmation line
\* naming the output path only if every stage succeeded, and exits 1 with a
\* message on stderr when the input is missing or a stage raises; after an
\* error no later stage runs and nothing is printed to stdout.
C6_DriverSequencing ==
    /\ args.mode \in Modes
    /\ IsPrefix(stages, <<"load", args.mode, "save">>)
    /\ exitCode \in {-1, 0, 1}
    /\ (pc = "exit") <=> (exitCode # -1)
    /\ exitCode = -1 => (raised = "none" /\ stdout = <<>> /\ stderr = <<>>)
    /\ exitCode = 0 =>
          /\ raised = "none"
          /\ stages = <<"load", args.mode, "save">>
          /\ stdout = <<SavedMessage(args.mode)>>
          /\ stdout[1][2] = output_path
          /\ stderr = <<>>
          /\ outFile = Complete(output)
    /\ exitCode = 1 => raised # "none"
    /\ raised # "none" =>
          /\ exitCode = 1
          /\ Len(stderr) = 1
          /\ stdout = <<>>
          /\ stages = StagesUpTo(raised)
          /\ raised # "save" => outFile = outFile0

\* a save that raised: every stage started, no confirmation, status 1
C6_Witness ==
    /\ raised = "save"
    /\ exitCode = 1
    /\ stages = <<"load", args.mode, "save">>
    /\ stdout = <<>>
    /\ stderr # <<>>

\* C4: halftone with dot_size <= 0 or scale <= 0 is rejected: the process
\* reports an error, exits non-zero and produces no output image.
C4_InvalidParametersRejected ==
    (/\ args.mode = "halftone"
     /\ (args.dot_size <= 0 \/ args.scale <= 0)
     /\ pc = "exit") =>
        /\ exitCode = 1
        /\ stderr # <<>>
        /\ outFile.kind # "complete"

\* C5: after a failed invocation the output path holds the complete new
\* image or exactly what it held before the run.
C5_NoHalfWrittenOutput ==
    (pc = "exit" /\ exitCode = 1) =>
        \/ outFile = outFile0
        \/ outFile.kind = "complete"

\* C10 (state part): the canvas starts all 255, holds only 0 and 255, and
\* once every cell has been processed, in whatever order, it is the canvas
\* the row-major order produces.
C10_CanvasState ==
    (args.mode = "halftone" /\ pc \in {"cells", "save"}) =>
        /\ \A i \in 1..Len(output.data) : output.data[i] \in {0, 255}
        /\ cells = <<>> => AllPixels(output, 255)
        /\ pc = "save" =>
              output = RowMajorCanvas(img, args.dot_size, args.scale,
                                      Cardinality(CellOrigins(img, args.dot_size)))

\* C10 (step part): a draw step changes pixels only to 0 and never turns a
\* 0 pixel back to 255.
C10_DrawStep ==
    pc = "cells" =>
        /\ Len(output'.data) = Len(output.data)
        /\ \A i \in 1..Len(output.data) :
              \/ output'.data[i] = output.data[i]
              \/ output'.data[i] = 0

\* C10: the halftone canvas is write-once-to-black and its final content
\* does not depend on the order in which the cells are processed.
C10_CanvasOrderIndependent == []C10_CanvasState /\ [][C10_DrawStep]_vars

\* a finished run that did not start with the first cell and in which two
\* drawn circles cover a common pixel
C10_Witness ==
    /\ pc = "save"
    /\ Len(cells) >= 2
    /\ <<cells[1].x, cells[1].y>> # <<0, 0>>
    /\ \E i \in 1..Len(cells), j \in 1..Len(cells) :
          /\ i < j
          /\ cells[i].drawn
          /\ cells[j].drawn
          /\ \E p \in Pixels(output) :
                /\ InEllipse(p[1], p[2], EllipseBox(cells[i].center_x,
                                                   cells[i].center_y,
                                                   cells[i].dot_radius))
                /\ InEllipse(p[1], p[2], EllipseBox(cells[j].center_x,
                                                   cells[j].center_y,
                                                   cells[j].dot_radius))

\* the loop of the code leaves the canvas RowMajorCanvas computes
RowMajorCanvasIsLoopResult ==
    (args.mode = "halftone" /\ args.dot_size >= 1 /\ pc = "save") =>
        output = RowMajorCanvas(img, args.dot_size, args.scale, Len(cells))

====
